---- MODULE Spec2Model ----
(***************************************************************************)
(* go-tabdeal: request signing, endpoint routing, transport orchestration  *)
(* and error classification of the Tabdeal REST client.                    *)
(*                                                                         *)
(* Four specifications share this module:                                  *)
(*   Spec       the client and one Request/ApiRequest call at a time       *)
(*   SpecParse  parseErrorResponse applied to bounded (status, body) pairs *)
(*   SpecSign   WrapWithSignature applied to bounded (params, secret, ts)  *)
(*   SpecConc   several goroutines calling Request on one shared client    *)
(***************************************************************************)
EXTENDS Integers, Sequences, FiniteSets, TLC

VARIABLES
    client,     \* Client: BaseUrl, Version, ApiKey, ApiSecret
    now,        \* wall clock: whole seconds since the epoch and milliseconds within the second
    pc,         \* position of the caller inside Request
    call,       \* arguments of the call in flight
    req,        \* the *http.Request built by the call
    doCalls,    \* number of HttpClient.Do invocations made by the call
    resp,       \* what the transport handed back
    ret,        \* the error value Request returned
    sink,       \* the caller's result sink
    inflight,   \* per goroutine: the Request call it has in flight on the shared client
    errIn,      \* input of parseErrorResponse
    errOut,     \* value returned by parseErrorResponse
    sigIn,      \* input of WrapWithSignature
    sigOut      \* value returned by WrapWithSignature

vars == <<client, now, pc, call, req, doCalls, resp, ret, sink,
          inflight, errIn, errOut, sigIn, sigOut>>

requestVars == <<client, now, pc, call, req, doCalls, resp, ret, sink>>
parseVars == <<errIn, errOut>>
signVars == <<sigIn, sigOut>>
concVars == <<inflight>>

None == [kind |-> "none"]

-----------------------------------------------------------------------------
(* Text helpers.                                                           *)

RECURSIVE HasSubstring(_, _)
HasSubstring(s, sub) ==
    IF Len(sub) > Len(s) THEN FALSE
    ELSE IF SubSeq(s, 1, Len(sub)) = sub THEN TRUE
    ELSE HasSubstring(SubSeq(s, 2, Len(s)), sub)

HasPrefix(s, p) == Len(p) <= Len(s) /\ SubSeq(s, 1, Len(p)) = p

RECURSIVE JoinStrings(_, _)
JoinStrings(seq, sep) ==
    IF Len(seq) = 0 THEN ""
    ELSE IF Len(seq) = 1 THEN seq[1]
    ELSE seq[1] \o sep \o JoinStrings(Tail(seq), sep)

UpperLetters == "ABCDEFGHIJKLMNOPQRSTUVWXYZ"
LowerLetters == "abcdefghijklmnopqrstuvwxyz"

FoldChar(ch) ==
    IF \E i \in 1..26 : SubSeq(UpperLetters, i, i) = ch
    THEN LET i == CHOOSE j \in 1..26 : SubSeq(UpperLetters, j, j) = ch
         IN SubSeq(LowerLetters, i, i)
    ELSE ch

RECURSIVE FoldName(_)
FoldName(s) ==
    IF Len(s) = 0 THEN ""
    ELSE FoldChar(SubSeq(s, 1, 1)) \o FoldName(SubSeq(s, 2, Len(s)))

-----------------------------------------------------------------------------
(* Go value rendering used by fmt and strconv.                             *)

Abs(n) == IF n < 0 THEN 0 - n ELSE n

\* strconv.Itoa / strconv.FormatInt(_, 10) on a value that fits TLC's
\* integers.
Itoa(n) == ToString(n)

RECURSIVE StripZeros(_)
StripZeros(n) == IF n # 0 /\ n % 10 = 0 THEN StripZeros(n \div 10) ELSE n

\* fmt's %v of a float64 holding the integer n: strconv 'g' format with the
\* shortest precision, which switches to exponent form from 1e+06 on.
FormatFloatV(n) ==
    IF Abs(n) < 1000000 THEN ToString(n)
    ELSE LET digits == ToString(StripZeros(Abs(n)))
             exp == Len(ToString(Abs(n))) - 1
             mant == IF Len(digits) = 1 THEN digits
                     ELSE SubSeq(digits, 1, 1) \o "." \o SubSeq(digits, 2, Len(digits))
             expTxt == IF exp < 10 THEN "0" \o ToString(exp) ELSE ToString(exp)
         IN (IF n < 0 THEN "-" ELSE "") \o mant \o "e+" \o expTxt

-----------------------------------------------------------------------------
(* JSON documents as the decoder sees them.  A response body is empty,     *)
(* syntactically invalid, or one JSON value; an object keeps its members   *)
(* in document order, duplicate and case-variant names included.           *)

JStr(s) == [t |-> "string", s |-> s]
JNum(n) == [t |-> "number", n |-> n]
JBool(b) == [t |-> "bool", b |-> b]
JNull == [t |-> "null"]
JArr(items) == [t |-> "array", items |-> items]
JObj(members) == [t |-> "object", members |-> members]

EmptyBody == [kind |-> "empty"]
MalformedBody == [kind |-> "malformed"]
JsonBody(v) == [kind |-> "json", v |-> v]

IsObjectBody(b) == b.kind = "json" /\ b.v.t = "object"

\* fmt.Sprintf("%v", x) of a value decoded into interface{}.
RECURSIVE SprintV(_)
SprintVItems(items) == JoinStrings([i \in 1..Len(items) |-> SprintV(items[i])], " ")
SprintV(v) ==
    CASE v.t = "string" -> v.s
      [] v.t = "number" -> FormatFloatV(v.n)
      [] v.t = "bool" -> IF v.b THEN "true" ELSE "false"
      [] v.t = "null" -> "<nil>"
      [] v.t = "array" -> "[" \o SprintVItems(v.items) \o "]"
      [] v.t = "object" -> "map[]"

MinInt16 == -32768
MaxInt16 == 32767

-----------------------------------------------------------------------------
(* types.ErrorResponse and its decoding by encoding/json.                  *)

ErrorResponse == [Code |-> 0, Message |-> "", Detail |-> ""]

\* The struct field a member name selects: its exact wire name first, then a
\* case-insensitive match; "" when the name selects no field.
ErrorResponseField(name) ==
    LET lookup(n) == CASE n = "code" -> "Code"
                       [] n = "msg" -> "Message"
                       [] n = "detail" -> "Detail"
                       [] OTHER -> ""
    IN IF lookup(name) # "" THEN lookup(name) ELSE lookup(FoldName(name))

\* DecodeMember storing a number that does not fit int16 modulo 2^16.
DecodeMemberWrapping(base, name, v) ==
    LET f == ErrorResponseField(name)
    IN CASE f = "Code" ->
              IF v.t = "number"
              THEN [base EXCEPT !.Code = ((v.n - MinInt16) % 65536) + MinInt16] ELSE base
         [] f = "Message" ->
              IF v.t = "string" THEN [base EXCEPT !.Message = v.s] ELSE base
         [] f = "Detail" ->
              IF v.t = "string" THEN [base EXCEPT !.Detail = v.s] ELSE base
         [] OTHER -> base

\* One member decoded into the struct: a value of the wrong JSON kind, or a
\* number that does not fit int16, is a type error that leaves the field as
\* it was; null leaves it as it was too.
DecodeMember(base, name, v) ==
    LET f == ErrorResponseField(name)
    IN CASE f = "Code" ->
              IF v.t = "number" /\ v.n >= MinInt16 /\ v.n <= MaxInt16
              THEN [base EXCEPT !.Code = v.n] ELSE base
         [] f = "Message" ->
              IF v.t = "string" THEN [base EXCEPT !.Message = v.s] ELSE base
         [] f = "Detail" ->
              IF v.t = "string" THEN [base EXCEPT !.Detail = v.s] ELSE base
         [] OTHER -> base

RECURSIVE DecodeMembers(_, _)
DecodeMembers(base, members) ==
    IF Len(members) = 0 THEN base
    ELSE DecodeMembers(DecodeMember(base, members[1][1], members[1][2]), Tail(members))

\* json.Unmarshal(respBody, &base): nothing is stored unless the body is
\* valid JSON holding an object.
UnmarshalErrorResponse(body) ==
    IF IsObjectBody(body) THEN DecodeMembers(ErrorResponse, body.v.members)
    ELSE ErrorResponse

\* json.Unmarshal(respBody, &raw) with raw a map[string]any: the last member
\* of each name wins; anything but an object leaves the map empty.
UnmarshalRaw(body) ==
    IF IsObjectBody(body)
    THEN LET ms == body.v.members
             names == {ms[i][1] : i \in 1..Len(ms)}
             last(k) == CHOOSE i \in 1..Len(ms) :
                            ms[i][1] = k /\ \A j \in (i+1)..Len(ms) : ms[j][1] # k
         IN [k \in names |-> ms[last(k)][2]]
    ELSE [k \in {} |-> JNull]

-----------------------------------------------------------------------------
(* parseErrorResponse.                                                     *)

\* The fallback without the status code.
FallbackMessageNoStatus(statusCode) == "Tabdeal API error"

FallbackMessage(statusCode) == "Tabdeal API error (" \o Itoa(statusCode) \o ")"

\* Step 1: the documented fields copied into the APIError.
ParseStep1(statusCode, body) ==
    LET base == UnmarshalErrorResponse(body)
        f1 == IF base.Code # 0 THEN ("code" :> <<Itoa(base.Code)>>) ELSE <<>>
        f2 == IF base.Message # "" THEN ("msg" :> <<base.Message>>) ELSE <<>>
        f3 == IF base.Detail # "" THEN ("detail" :> <<base.Detail>>) ELSE <<>>
    IN [kind |-> "APIError",
        StatusCode |-> statusCode,
        Code |-> base.Code,
        Msg |-> base.Message,
        Message |-> base.Message,
        Detail |-> base.Detail,
        Fields |-> f3 @@ f2 @@ f1]

\* RawFieldValue rendering strings quoted.
RawFieldValueQuoted(v) ==
    CASE v.t = "string" -> <<"\"" \o v.s \o "\"">>
      [] v.t = "array" -> [i \in 1..Len(v.items) |-> SprintV(v.items[i])]
      [] OTHER -> <<SprintV(v)>>

\* The Fields entry step 2 writes for one raw value.
RawFieldValue(v) ==
    CASE v.t = "string" -> <<v.s>>
      [] v.t = "array" -> [i \in 1..Len(v.items) |-> SprintV(v.items[i])]
      [] OTHER -> <<SprintV(v)>>

\* ParseStep2 taking Message and Detail from the raw members whenever these
\* hold a non-empty string.
ParseStep2Overwrite(apiErr, body) ==
    LET raw == UnmarshalRaw(body)
        rawStr(k) == IF k \in DOMAIN raw /\ raw[k].t = "string" THEN raw[k].s ELSE ""
    IN [apiErr EXCEPT
          !.Fields = [k \in DOMAIN raw |-> RawFieldValue(raw[k])] @@ apiErr.Fields,
          !.Message = IF rawStr("msg") # "" THEN rawStr("msg") ELSE apiErr.Message,
          !.Detail = IF rawStr("detail") # "" THEN rawStr("detail") ELSE apiErr.Detail]

\* Step 2: every raw member captured; msg and detail fill Message and Detail
\* only when step 1 left them empty.
ParseStep2(apiErr, body) ==
    LET raw == UnmarshalRaw(body)
        rawStr(k) == IF k \in DOMAIN raw /\ raw[k].t = "string" THEN raw[k].s ELSE ""
    IN [apiErr EXCEPT
          !.Fields = [k \in DOMAIN raw |-> RawFieldValue(raw[k])] @@ apiErr.Fields,
          !.Message = IF apiErr.Message = "" THEN rawStr("msg") ELSE apiErr.Message,
          !.Detail = IF apiErr.Detail = "" THEN rawStr("detail") ELSE apiErr.Detail]

\* Step 3 left out.
ParseStep3NoFallback(apiErr) == apiErr

\* Step 3: the fallback message.
ParseStep3(apiErr) ==
    IF apiErr.Message = ""
    THEN [apiErr EXCEPT !.Message = FallbackMessage(apiErr.StatusCode)]
    ELSE apiErr

parseErrorResponse(statusCode, body) ==
    ParseStep3(ParseStep2(ParseStep1(statusCode, body), body))


-----------------------------------------------------------------------------
(* Go parameter objects: struct values with their field names and tags.    *)

GoStr(s) == [k |-> "string", s |-> s]
GoInt(n) == [k |-> "int", n |-> n]
GoFloat(n) == [k |-> "float", n |-> n]      \* a float64 holding the integer n
GoStruct(fields) == [k |-> "struct", fields |-> fields]
Field(name, tag, v) == [Name |-> name, Tag |-> tag, v |-> v, Anonymous |-> FALSE]
Embedded(name, v) == [Name |-> name, Tag |-> "", v |-> v, Anonymous |-> TRUE]
NilParams == [k |-> "nil"]

\* An int64 count of milliseconds sec*1000 + ms, kept as the pair because
\* TLC's integers are 32 bits wide.
Millis(sec, ms) == [k |-> "millis", sec |-> sec, ms |-> ms]

\* strconv.FormatInt(timestamp, 10) of a non-negative millisecond count.
FormatInt(ts) ==
    IF ts.sec = 0 THEN Itoa(ts.ms)
    ELSE Itoa(ts.sec) \o (IF ts.ms < 10 THEN "00" ELSE IF ts.ms < 100 THEN "0" ELSE "")
                      \o Itoa(ts.ms)

\* The hex digest of HMAC-SHA256(key, msg), kept symbolic: two digests are
\* equal exactly when key and message are.
HmacSha256Hex(key, msg) == [k |-> "hmac", key |-> key, msg |-> msg]

BaseSymbolParams(symbol, tabdealSymbol) ==
    GoStruct(<<Field("Symbol", "symbol,omitempty", GoStr(symbol)),
               Field("TabdealSymbol", "tabdealSymbol,omitempty", GoStr(tabdealSymbol))>>)

GetOrderBookParams(symbol, tabdealSymbol, limit) ==
    GoStruct(<<Embedded("BaseSymbolParams", BaseSymbolParams(symbol, tabdealSymbol)),
               Field("Limit", "limit,omitempty", GoInt(limit))>>)

GetWalletParams(asset) ==
    GoStruct(<<Field("Asset", "asset,omitempty", GoStr(asset))>>)

GetOrderStatusParams(orderId, origClientOrderId) ==
    GoStruct(<<Field("OrderId", "orderId,omitempty", GoInt(orderId)),
               Field("OrigClientOrderId", "origClientOrderId,omitempty",
                     GoStr(origClientOrderId))>>)

CancelOrderBulkParams(symbol, tabdealSymbol) ==
    GoStruct(<<Embedded("BaseSymbolParams", BaseSymbolParams(symbol, tabdealSymbol))>>)

GetRecentTradesParams(symbol, tabdealSymbol, limit) ==
    GoStruct(<<Embedded("BaseSymbolParams", BaseSymbolParams(symbol, tabdealSymbol)),
               Field("Limit", "limit,omitempty", GoInt(limit))>>)

CancelOrderParams(symbol, tabdealSymbol, orderId, origClientOrderId) ==
    GoStruct(<<Embedded("BaseSymbolParams", BaseSymbolParams(symbol, tabdealSymbol)),
               Field("OrderId", "orderId,omitempty", GoInt(orderId)),
               Field("OrigClientOrderId", "origClientOrderId,omitempty",
                     GoStr(origClientOrderId))>>)

CreateOrderParams(symbol, tabdealSymbol, side, type, quantity, newClientOrderId, price, stopPrice) ==
    GoStruct(<<Embedded("BaseSymbolParams", BaseSymbolParams(symbol, tabdealSymbol)),
               Field("Side", "side", GoStr(side)),
               Field("Type", "type", GoStr(type)),
               Field("Quantity", "quantity", GoFloat(quantity)),
               Field("NewClientOrderId", "newClientOrderId,omitempty",
                     GoStr(newClientOrderId)),
               Field("Price", "price,omitempty", GoFloat(price)),
               Field("StopPrice", "stopPrice,omitempty", GoFloat(stopPrice))>>)

GetOpenOrdersParams(symbol, tabdealSymbol) ==
    GoStruct(<<Embedded("BaseSymbolParams", BaseSymbolParams(symbol, tabdealSymbol))>>)

GetUserOrdersHistoryParams(symbol, tabdealSymbol, startTime, endTime, limit) ==
    GoStruct(<<Embedded("BaseSymbolParams", BaseSymbolParams(symbol, tabdealSymbol)),
               Field("StartTime", "startTime,omitempty", GoInt(startTime)),
               Field("EndTime", "endTime,omitempty", GoInt(endTime)),
               Field("Limit", "limit,omitempty", GoInt(limit))>>)

GetUserTradesParams(history, orderId) ==
    GoStruct(<<Embedded("GetUserOrdersHistoryParams", history),
               Field("OrderId", "orderId,omitempty", GoInt(orderId))>>)

\* fmt's %v of a field value.
RECURSIVE SprintGo(_)
SprintGoFields(fields) ==
    JoinStrings([i \in 1..Len(fields) |-> SprintGo(fields[i].v)], " ")
SprintGo(v) ==
    CASE v.k = "string" -> v.s
      [] v.k = "int" -> Itoa(v.n)
      [] v.k = "float" -> FormatFloatV(v.n)
      [] v.k = "millis" -> FormatInt(v)
      [] v.k = "hmac" -> "hmac(" \o v.key \o "," \o v.msg \o ")"
      [] v.k = "struct" -> "{" \o SprintGoFields(v.fields) \o "}"

-----------------------------------------------------------------------------
(* utils.WrapWithSignature.                                                *)

\* The key of one field: the json tag when there is one, else the field name.
SignKey(f) == IF f.Tag # "" /\ f.Tag # "-" THEN f.Tag ELSE f.Name

SignPairs(fields) ==
    [i \in 1..Len(fields) |-> SignKey(fields[i]) \o "=" \o SprintGo(fields[i].v)]

\* The string WrapWithSignature hands to the HMAC.
SignRaw(inputStruct, timestamp) ==
    JoinStrings(Append(SignPairs(inputStruct.fields), "timestamp=" \o FormatInt(timestamp)), "&")

\* The map built by the field loop: a later field of the same key overwrites.
SignFieldMap(fields) ==
    LET keys == {SignKey(fields[i]) : i \in 1..Len(fields)}
        last(key) == CHOOSE i \in 1..Len(fields) :
                        SignKey(fields[i]) = key
                        /\ \A j \in (i+1)..Len(fields) : SignKey(fields[j]) # key
    IN [key \in keys |-> fields[last(key)].v]

\* WrapWithSignature storing the timestamp truncated to whole seconds.
WrapWithSignatureSecondsStamp(inputStruct, apiSecret, timestamp) ==
    ("signature" :> HmacSha256Hex(apiSecret, SignRaw(inputStruct, timestamp)))
    @@ ("timestamp" :> Millis(timestamp.sec, 0))
    @@ SignFieldMap(inputStruct.fields)

WrapWithSignature(inputStruct, apiSecret, timestamp) ==
    ("signature" :> HmacSha256Hex(apiSecret, SignRaw(inputStruct, timestamp)))
    @@ ("timestamp" :> timestamp)
    @@ SignFieldMap(inputStruct.fields)


-----------------------------------------------------------------------------
(* Error values.                                                           *)

NilError == [kind |-> "nil"]
GoTabdealError(message, err) == [kind |-> "GoTabdealError", Message |-> message, Err |-> err]
RequestError(operation, message, err) ==
    [kind |-> "RequestError", Operation |-> operation, Message |-> message, Err |-> err]

\* Causes reported by the standard library and the transport.
EncodeCause == [kind |-> "cause", of |-> "StructToURLParams"]
NewRequestCause == [kind |-> "cause", of |-> "http.NewRequest"]
SendCause == [kind |-> "cause", of |-> "HttpClient.Do"]
ReadCause == [kind |-> "cause", of |-> "io.ReadAll"]
UnmarshalCause == [kind |-> "cause", of |-> "json.Unmarshal"]

-----------------------------------------------------------------------------
(* Client construction, authentication check and routing.                  *)

BaseUrl == "https://api1.tabdeal.org"
Version == "v1"

\* NewClient: Version is not among the fields it sets.
NewClient(opts) ==
    [BaseUrl |-> IF opts.BaseUrl # "" THEN opts.BaseUrl ELSE BaseUrl,
     Version |-> "",
     ApiKey |-> opts.ApiKey,
     ApiSecret |-> opts.ApiSecret]

\* assertAuth as its header comment describes it: only the key is looked at.
assertAuthKeyOnly(c) ==
    IF c.ApiKey = "" THEN GoTabdealError("api key is empty", NilError) ELSE NilError

assertAuth(c) ==
    IF c.ApiKey = "" THEN GoTabdealError("api key is empty", NilError)
    ELSE IF c.ApiSecret = "" THEN GoTabdealError("api secret is empty", NilError)
    ELSE NilError

\* createApiURI without the read prefix.
createApiURISinglePrefix(c, method, endpoint) ==
    c.BaseUrl \o "/api/" \o c.Version \o endpoint

createApiURI(c, method, endpoint) ==
    IF method = "GET"
    THEN c.BaseUrl \o "/r/api/" \o c.Version \o endpoint
    ELSE c.BaseUrl \o "/api/" \o c.Version \o endpoint


-----------------------------------------------------------------------------
(* utils.StructToURLParams, the parameter encoder.                         *)

\* The name part and the omitempty option of a json tag.
RECURSIVE TagName(_)
TagName(tag) ==
    IF Len(tag) = 0 \/ SubSeq(tag, 1, 1) = "," THEN ""
    ELSE SubSeq(tag, 1, 1) \o TagName(SubSeq(tag, 2, Len(tag)))

TagOmitEmpty(tag) == HasSubstring(tag, ",omitempty")

WireName(f) == IF f.Tag # "-" /\ TagName(f.Tag) # "" THEN TagName(f.Tag) ELSE f.Name

IsEmptyValue(v) == (v.k = "string" /\ v.s = "") \/ (v.k \in {"int", "float"} /\ v.n = 0)

IsScalar(v) == v.k \in {"string", "int", "float", "millis", "hmac"}

\* The ordered (name, value) pairs of a parameter object: fields of an
\* embedded struct are promoted, omitted fields are dropped.
RECURSIVE RecordOfFields(_)
RecordOfFields(fields) ==
    IF Len(fields) = 0 THEN <<>>
    ELSE LET f == fields[1]
             here == IF f.Anonymous /\ f.v.k = "struct" THEN RecordOfFields(f.v.fields)
                     ELSE IF TagOmitEmpty(f.Tag) /\ IsEmptyValue(f.v) THEN <<>>
                     ELSE << <<WireName(f), f.v>> >>
         IN here \o RecordOfFields(Tail(fields))

\* The pairs of a map visited in the iteration order the runtime picked.
RecordOfMap(m, order) == [i \in 1..Len(order) |-> <<order[i], m[order[i]]>>]

EncodeRecord(rec) ==
    IF \E i \in 1..Len(rec) : ~IsScalar(rec[i][2])
    THEN [err |-> TRUE, s |-> ""]
    ELSE [err |-> FALSE,
          s |-> JoinStrings([i \in 1..Len(rec) |-> rec[i][1] \o "=" \o SprintGo(rec[i][2])], "&")]

StructToURLParams(params) == EncodeRecord(RecordOfFields(params.fields))

StructToURLParamsMap(m, order) == EncodeRecord(RecordOfMap(m, order))

\* Every order in which the keys of a map can be visited.
KeyOrders(m) ==
    {o \in [1..Cardinality(DOMAIN m) -> DOMAIN m] :
        \A i, j \in DOMAIN o : i # j => o[i] # o[j]}

-----------------------------------------------------------------------------
(* Client.Request, in the two halves separated by the transport call.      *)

\* time.Now().Unix()*1000
SigningTimestamp(clock) == Millis(clock.sec, 0)

\* The characters net/http refuses in a method token (those the inputs use).
ValidMethod(method) ==
    /\ Len(method) > 0
    /\ \A i \in 1..Len(method) : SubSeq(method, i, i) \notin {" ", "/", "(", ")", ","}

HexDigits == "0123456789abcdefABCDEF"
IsHex(ch) == \E i \in 1..Len(HexDigits) : SubSeq(HexDigits, i, i) = ch

\* net/url rejects a "%" that is not followed by two hex digits.
ValidURL(url) ==
    \A i \in 1..Len(url) :
        SubSeq(url, i, i) = "%" =>
            /\ i + 2 <= Len(url)
            /\ IsHex(SubSeq(url, i + 1, i + 1))
            /\ IsHex(SubSeq(url, i + 2, i + 2))

\* RequestParams running the signer whatever auth says.
RequestParamsAlwaysSigned(c, auth, body, clock, order) ==
    StructToURLParamsMap(WrapWithSignature(body, c.ApiSecret, SigningTimestamp(clock)), order)

\* The query string of the call: signed first when auth is set.
RequestParams(c, auth, body, clock, order) ==
    IF auth
    THEN StructToURLParamsMap(WrapWithSignature(body, c.ApiSecret, SigningTimestamp(clock)), order)
    ELSE StructToURLParams(body)

\* PrepareRequest signing a call with auth set also when it has no params.
PrepareRequestSignNil(c, method, url, auth, body, clock, order) ==
    LET stamp == "timestamp=" \o FormatInt(SigningTimestamp(clock))
        enc == IF body = NilParams
               THEN [err |-> FALSE,
                     s |-> IF auth
                           THEN stamp \o "&signature="
                                \o SprintGo(HmacSha256Hex(c.ApiSecret, stamp))
                           ELSE ""]
               ELSE RequestParams(c, auth, body, clock, order)
        fullUrl == IF body = NilParams /\ ~auth THEN url ELSE url \o "?" \o enc.s
        authErr == assertAuth(c)
    IN IF enc.err
       THEN [ret |-> RequestError("preparing request parameters",
                                  "failed to convert struct to URL params", EncodeCause),
             req |-> None]
       ELSE IF ~(ValidMethod(method) /\ ValidURL(fullUrl))
       THEN [ret |-> RequestError("creating request", "failed to create request",
                                  NewRequestCause),
             req |-> None]
       ELSE IF auth /\ authErr # NilError
       THEN [ret |-> GoTabdealError("authentication validation failed", authErr),
             req |-> None]
       ELSE [ret |-> NilError,
             req |-> [kind |-> "request", Method |-> method, URL |-> fullUrl, Body |-> "",
                      Header |-> IF auth
                                 THEN ("Content-Type" :> "application/json")
                                      @@ ("X-MBX-APIKEY" :> c.ApiKey)
                                 ELSE ("Content-Type" :> "application/json")]]

\* PrepareRequest sending the params of a verb other than GET as the body.
PrepareRequestWriteBody(c, method, url, auth, body, clock, order) ==
    LET enc == IF body = NilParams THEN [err |-> FALSE, s |-> ""]
               ELSE RequestParams(c, auth, body, clock, order)
        inBody == body # NilParams /\ method # "GET"
        fullUrl == IF body = NilParams \/ inBody THEN url ELSE url \o "?" \o enc.s
        authErr == assertAuth(c)
    IN IF enc.err
       THEN [ret |-> RequestError("preparing request parameters",
                                  "failed to convert struct to URL params", EncodeCause),
             req |-> None]
       ELSE IF ~(ValidMethod(method) /\ ValidURL(fullUrl))
       THEN [ret |-> RequestError("creating request", "failed to create request",
                                  NewRequestCause),
             req |-> None]
       ELSE IF auth /\ authErr # NilError
       THEN [ret |-> GoTabdealError("authentication validation failed", authErr),
             req |-> None]
       ELSE [ret |-> NilError,
             req |-> [kind |-> "request", Method |-> method, URL |-> fullUrl,
                      Body |-> IF inBody THEN enc.s ELSE "",
                      Header |-> IF auth
                                 THEN ("Content-Type" :> "application/json")
                                      @@ ("X-MBX-APIKEY" :> c.ApiKey)
                                 ELSE ("Content-Type" :> "application/json")]]

\* Request up to, not including, HttpClient.Do: either the error it returns
\* or the request it is about to send.
PrepareRequest(c, method, url, auth, body, clock, order) ==
    LET enc == IF body = NilParams THEN [err |-> FALSE, s |-> ""]
               ELSE RequestParams(c, auth, body, clock, order)
        fullUrl == IF body = NilParams THEN url ELSE url \o "?" \o enc.s
        authErr == assertAuth(c)
    IN IF enc.err
       THEN [ret |-> RequestError("preparing request parameters",
                                  "failed to convert struct to URL params", EncodeCause),
             req |-> None]
       ELSE IF ~(ValidMethod(method) /\ ValidURL(fullUrl))
       THEN [ret |-> RequestError("creating request", "failed to create request",
                                  NewRequestCause),
             req |-> None]
       ELSE IF auth /\ authErr # NilError
       THEN [ret |-> GoTabdealError("authentication validation failed", authErr),
             req |-> None]
       ELSE [ret |-> NilError,
             req |-> [kind |-> "request", Method |-> method, URL |-> fullUrl, Body |-> "",
                      Header |-> IF auth
                                 THEN ("Content-Type" :> "application/json")
                                      @@ ("X-MBX-APIKEY" :> c.ApiKey)
                                 ELSE ("Content-Type" :> "application/json")]]

\* json.Unmarshal(respBody, result) for the sinks the endpoint methods pass:
\* the address of a nil pointer to a struct or to a slice.
UnmarshalFits(body, resultType) ==
    /\ body.kind = "json"
    /\ \/ body.v.t = "null"
       \/ resultType = "struct" /\ body.v.t = "object"
       \/ resultType = "slice" /\ body.v.t = "array"

UnmarshalSink(body, resultType, before) ==
    IF body.kind # "json" THEN before
    ELSE IF body.v.t = "null" THEN None
    ELSE IF UnmarshalFits(body, resultType) THEN [kind |-> "decoded", v |-> body.v]
    ELSE [kind |-> "zero"]

\* FinishRequest taking only statuses from 300 up as errors.
FinishRequestNoLowerBound(response, resultType, before) ==
    IF response.kind = "sendError"
    THEN [ret |-> RequestError("sending request", "failed to send request", SendCause),
          sink |-> before]
    ELSE IF response.readFails
    THEN [ret |-> RequestError("reading response", "failed to read response body", ReadCause),
          sink |-> before]
    ELSE IF response.status >= 300
    THEN [ret |-> parseErrorResponse(response.status, response.body), sink |-> before]
    ELSE IF resultType # "nil"
    THEN IF UnmarshalFits(response.body, resultType)
         THEN [ret |-> NilError, sink |-> UnmarshalSink(response.body, resultType, before)]
         ELSE [ret |-> RequestError("parsing response", "failed to unmarshal response",
                                    UnmarshalCause),
               sink |-> UnmarshalSink(response.body, resultType, before)]
    ELSE [ret |-> NilError, sink |-> before]

\* FinishRequest dropping the error of json.Unmarshal.
FinishRequestIgnoreDecode(response, resultType, before) ==
    IF response.kind = "sendError"
    THEN [ret |-> RequestError("sending request", "failed to send request", SendCause),
          sink |-> before]
    ELSE IF response.readFails
    THEN [ret |-> RequestError("reading response", "failed to read response body", ReadCause),
          sink |-> before]
    ELSE IF response.status < 200 \/ response.status >= 300
    THEN [ret |-> parseErrorResponse(response.status, response.body), sink |-> before]
    ELSE IF resultType # "nil"
    THEN [ret |-> NilError, sink |-> UnmarshalSink(response.body, resultType, before)]
    ELSE [ret |-> NilError, sink |-> before]

\* FinishRequest going on with an empty body when the body cannot be read.
FinishRequestSwallowRead(response, resultType, before) ==
    IF response.kind = "sendError"
    THEN [ret |-> RequestError("sending request", "failed to send request", SendCause),
          sink |-> before]
    ELSE IF response.status < 200 \/ response.status >= 300
    THEN [ret |-> parseErrorResponse(response.status, response.body), sink |-> before]
    ELSE IF resultType # "nil"
    THEN IF UnmarshalFits(response.body, resultType)
         THEN [ret |-> NilError, sink |-> UnmarshalSink(response.body, resultType, before)]
         ELSE [ret |-> RequestError("parsing response", "failed to unmarshal response",
                                    UnmarshalCause),
               sink |-> UnmarshalSink(response.body, resultType, before)]
    ELSE [ret |-> NilError, sink |-> before]

\* FinishRequest decoding the body into the sink before it looks at the status.
FinishRequestDecodeFirst(response, resultType, before) ==
    IF response.kind = "sendError"
    THEN [ret |-> RequestError("sending request", "failed to send request", SendCause),
          sink |-> before]
    ELSE IF response.readFails
    THEN [ret |-> RequestError("reading response", "failed to read response body", ReadCause),
          sink |-> before]
    ELSE IF response.status < 200 \/ response.status >= 300
    THEN [ret |-> parseErrorResponse(response.status, response.body),
          sink |-> IF resultType # "nil"
                   THEN UnmarshalSink(response.body, resultType, before) ELSE before]
    ELSE IF resultType # "nil"
    THEN IF UnmarshalFits(response.body, resultType)
         THEN [ret |-> NilError, sink |-> UnmarshalSink(response.body, resultType, before)]
         ELSE [ret |-> RequestError("parsing response", "failed to unmarshal response",
                                    UnmarshalCause),
               sink |-> UnmarshalSink(response.body, resultType, before)]
    ELSE [ret |-> NilError, sink |-> before]

\* Request from the return of HttpClient.Do on.
FinishRequest(response, resultType, before) ==
    IF response.kind = "sendError"
    THEN [ret |-> RequestError("sending request", "failed to send request", SendCause),
          sink |-> before]
    ELSE IF response.readFails
    THEN [ret |-> RequestError("reading response", "failed to read response body", ReadCause),
          sink |-> before]
    ELSE IF response.status < 200 \/ response.status >= 300
    THEN [ret |-> parseErrorResponse(response.status, response.body), sink |-> before]
    ELSE IF resultType # "nil"
    THEN IF UnmarshalFits(response.body, resultType)
         THEN [ret |-> NilError, sink |-> UnmarshalSink(response.body, resultType, before)]
         ELSE [ret |-> RequestError("parsing response", "failed to unmarshal response",
                                    UnmarshalCause),
               sink |-> UnmarshalSink(response.body, resultType, before)]
    ELSE [ret |-> NilError, sink |-> before]


-----------------------------------------------------------------------------
(* Inputs and bounds.                                                      *)

MaxMembers == 3     \* members of an error body object
MaxTicks == 2       \* clock steps taken during a run
TickMillis == 500   \* milliseconds per clock step
MaxCallers == 2     \* goroutines sharing one client

ClientOptionsSet ==
    [BaseUrl : {"", "http://localhost"}, ApiKey : {"", "KEY"}, ApiSecret : {"", "abc"}]

\* Version as NewClient leaves it, and as a caller sets the exported field.
ClientVersions == {"", Version}

Clients ==
    {NewClient(o) : o \in ClientOptionsSet}
    \cup {[NewClient(o) EXCEPT !.Version = Version] : o \in {x \in ClientOptionsSet : x.BaseUrl = ""}}

Methods == {"GET", "POST", "DELETE", "BAD METHOD"}
Endpoints == {"/depth", "/order", "/%zz"}
DirectURLs == {"http://localhost/ping"}
ParamsSet ==
    {NilParams, GetOrderBookParams("BTCIRT", "", 0), GetWalletParams(""), GetWalletParams("USDT")}
ResultTypes == {"nil", "struct", "slice"}

\* The params handed to the endpoint methods.
OrderBookInputs == {GetOrderBookParams("BTCIRT", "", 5)}
RecentTradesInputs == {GetRecentTradesParams("", "BTC_IRT", 0)}
WalletInputs == {GetWalletParams("USDT")}
CreateOrderInputs == {CreateOrderParams("BTCIRT", "", "BUY", "LIMIT", 2, "", 1000000, 0)}
CancelOrderInputs == {CancelOrderParams("BTCIRT", "", 777, "")}
CancelOrderBulkInputs == {CancelOrderBulkParams("BTCIRT", "")}
OrdersHistoryInputs == {GetUserOrdersHistoryParams("BTCIRT", "", 0, 0, 10)}
OpenOrdersInputs == {GetOpenOrdersParams("", "")}
OrderStatusInputs == {GetOrderStatusParams(777, "")}
UserTradesInputs == {GetUserTradesParams(GetUserOrdersHistoryParams("BTCIRT", "", 0, 0, 0), 777)}

StartClock == [sec |-> 1700000000, ms |-> 0]

ErrorBodyObject == JsonBody(JObj(<< <<"code", JNum(-1100)>>, <<"msg", JStr("bad param")>> >>))

Statuses == {199, 200, 299, 300, 500}
ResponseBodies == {EmptyBody, JsonBody(JObj(<<>>)), JsonBody(JArr(<<>>)), ErrorBodyObject}

\* What HttpClient.Do and the body reader can hand back.
Responses ==
    {[kind |-> "sendError"]}
    \cup {[kind |-> "response", status |-> st, body |-> EmptyBody, readFails |-> TRUE] :
             st \in {200, 500}}
    \cup {[kind |-> "response", status |-> st, body |-> b, readFails |-> FALSE] :
             st \in Statuses, b \in ResponseBodies}

ErrorMembers ==
    {<<"code", JNum(-1100)>>, <<"code", JNum(70000)>>, <<"code", JNum(0)>>,
     <<"code", JStr("E1")>>, <<"CODE", JNum(7)>>,
     <<"msg", JStr("bad param")>>, <<"msg", JStr("")>>, <<"msg", JNum(5)>>,
     <<"MSG", JStr("loud")>>, <<"MSG", JStr("")>>,
     <<"detail", JStr("why")>>, <<"Detail", JStr("more")>>,
     <<"extra", JStr("x")>>, <<"extra", JBool(TRUE)>>,
     <<"extra", JArr(<<JStr("a"), JNum(1)>>)>>}

ErrorStatuses == {400, 500}

\* Error bodies that are not JSON objects.
NonObjectBodies ==
    {EmptyBody, MalformedBody, JsonBody(JNull), JsonBody(JNum(5)), JsonBody(JStr("oops")),
     JsonBody(JArr(<<JStr("a")>>))}

SignParams ==
    {GetOrderBookParams(sym, "", lim) : sym \in {"", "BTCIRT"}, lim \in {0, 5}}
    \cup {GetWalletParams(a) : a \in {"", "USDT"}}
    \cup {GetOrderStatusParams(id, oc) : id \in {0, 777}, oc \in {"", "order-001"}}
    \cup {CancelOrderBulkParams(sym, tsym) : sym \in {"", "BTCIRT"}, tsym \in {"", "BTC_IRT"}}
SignSecrets == {"", "abc", "other"}
SignTimestamps == {Millis(0, 0), Millis(0, 7), Millis(1700000000, 0), Millis(1700000000, 42)}

-----------------------------------------------------------------------------
(* The client making calls.                                                *)

Pending == [kind |-> "pending"]

IdleCall ==
    /\ pc = "idle"
    /\ call = None
    /\ req = None
    /\ doCalls = 0
    /\ resp = None
    /\ ret = None
    /\ sink = None

Goroutines == 1..MaxCallers

IdleGo == [kind |-> "idle"]

NoneInFlight == [g \in Goroutines |-> IdleGo]

Init ==
    /\ client \in Clients
    /\ now = StartClock
    /\ IdleCall
    /\ inflight = NoneInFlight
    /\ errIn = None /\ errOut = None
    /\ sigIn = None /\ sigOut = None

\* One order of the elements of a set.
RECURSIVE AnyOrder(_)
AnyOrder(S) ==
    IF S = {} THEN <<>>
    ELSE LET x == CHOOSE y \in S : TRUE IN <<x>> \o AnyOrder(S \ {x})

\* The iteration orders of the signed map, when the call builds one.  A map
\* holding a structured value fails to encode in every order, so one order
\* stands for all of them.
CallOrders(auth, body) ==
    IF auth /\ body # NilParams
    THEN LET m == WrapWithSignature(body, client.ApiSecret, SigningTimestamp(now))
         IN IF \E k \in DOMAIN m : ~IsScalar(m[k]) THEN {AnyOrder(DOMAIN m)}
            ELSE KeyOrders(m)
    ELSE {<<>>}

\* What the sink a caller hands to Request can hold before the call: nothing,
\* or a value of its type left by earlier code.
PriorSinks(result) ==
    CASE result = "struct" -> {None, [kind |-> "decoded", v |-> JObj(<<>>)]}
      [] result = "slice" -> {None, [kind |-> "decoded", v |-> JArr(<<>>)]}
      [] OTHER -> {None}

StartRequest(method, endpoint, url, auth, body, result, before, order) ==
    LET p == PrepareRequest(client, method, url, auth, body, now, order)
    IN /\ call' = [kind |-> "call", method |-> method, endpoint |-> endpoint, url |-> url,
                   auth |-> auth, body |-> body, result |-> result, before |-> before,
                   stamp |-> IF auth /\ body # NilParams
                             THEN [kind |-> "stamp", ts |-> SigningTimestamp(now)]
                             ELSE None]
       /\ req' = p.req
       /\ ret' = IF p.req = None THEN p.ret ELSE Pending
       /\ pc' = IF p.req = None THEN "done" ELSE "sending"
       /\ sink' = before
       /\ UNCHANGED <<client, now, doCalls, resp>>
       /\ UNCHANGED <<parseVars, signVars, concVars>>

\* c.Request(method, url, auth, body, result)
Request(method, url, auth, body, result) ==
    /\ pc = "idle"
    /\ \E order \in CallOrders(auth, body) : \E before \in PriorSinks(result) :
          StartRequest(method, "", url, auth, body, result, before, order)

\* c.ApiRequest(method, endpoint, auth, body, result)
ApiRequest(method, endpoint, auth, body, result) ==
    /\ pc = "idle"
    /\ \E order \in CallOrders(auth, body) :
          StartRequest(method, endpoint, createApiURI(client, method, endpoint),
                       auth, body, result, sink, order)

\* HttpClientDo sending again after a failed send.
HttpClientDoRetry(response) ==
    /\ pc = "sending" \/ (pc = "received" /\ resp.kind = "sendError" /\ doCalls < 2)
    /\ doCalls' = doCalls + 1
    /\ resp' = response
    /\ pc' = "received"
    /\ UNCHANGED <<client, now, call, req, ret, sink>>
    /\ UNCHANGED <<parseVars, signVars, concVars>>

\* The endpoint methods: each is one ApiRequest with a fixed verb, endpoint,
\* auth flag and kind of result sink.
ping == ApiRequest("GET", "/ping", FALSE, NilParams, "nil")

GetServerTime == ApiRequest("GET", "/time", FALSE, NilParams, "struct")

GetMarketInformation == ApiRequest("GET", "/exchangeInfo", FALSE, NilParams, "slice")

GetOrderBook(params) == ApiRequest("GET", "/depth", FALSE, params, "struct")

GetRecentTrades(params) == ApiRequest("GET", "/trades", FALSE, params, "slice")

GetWallets(params) == ApiRequest("GET", "/get-funding-asset", TRUE, params, "slice")

CreateOrder(params) == ApiRequest("POST", "/order", TRUE, params, "struct")

CancelOrder(params) == ApiRequest("DELETE", "/order", TRUE, params, "struct")

CancelOrderBulk(params) == ApiRequest("DELETE", "/openOrders", TRUE, params, "slice")

GetOrdersHistory(params) == ApiRequest("GET", "/allOrders", TRUE, params, "slice")

GetOpenOrders(params) == ApiRequest("GET", "/openOrders", TRUE, params, "slice")

GetOrderStatus(params) == ApiRequest("GET", "/order", TRUE, params, "struct")

GetUserTrades(params) == ApiRequest("GET", "/myTrades", TRUE, params, "slice")

\* c.HttpClient.Do(req) and the reading of the response body.
HttpClientDo(response) ==
    /\ pc = "sending"
    /\ doCalls' = doCalls + 1
    /\ resp' = response
    /\ pc' = "received"
    /\ UNCHANGED <<client, now, call, req, ret, sink>>
    /\ UNCHANGED <<parseVars, signVars, concVars>>

\* Request from the return of the transport to its own return.
RequestFinish ==
    /\ pc = "received"
    /\ LET f == FinishRequest(resp, call.result, sink)
       IN ret' = f.ret /\ sink' = f.sink
    /\ pc' = "done"
    /\ UNCHANGED <<client, now, call, req, doCalls, resp>>
    /\ UNCHANGED <<parseVars, signVars, concVars>>

\* The caller takes the returned error and is free to call again.
CallerContinue ==
    /\ pc = "done"
    /\ pc' = "idle"
    /\ call' = None
    /\ req' = None
    /\ doCalls' = 0
    /\ resp' = None
    /\ ret' = None
    /\ sink' = None
    /\ UNCHANGED <<client, now>>
    /\ UNCHANGED <<parseVars, signVars, concVars>>

Elapsed(clock) == (clock.sec - StartClock.sec) * 1000 + clock.ms - StartClock.ms

\* The wall clock advances between calls.
Tick ==
    /\ pc = "idle"
    /\ Elapsed(now) < MaxTicks * TickMillis
    /\ now' = IF now.ms + TickMillis >= 1000
              THEN [sec |-> now.sec + 1, ms |-> now.ms + TickMillis - 1000]
              ELSE [sec |-> now.sec, ms |-> now.ms + TickMillis]
    /\ UNCHANGED <<client, pc, call, req, doCalls, resp, ret, sink>>
    /\ UNCHANGED <<parseVars, signVars, concVars>>

Next ==
    \/ \E m \in Methods, u \in DirectURLs, a \in BOOLEAN, b \in ParamsSet, r \in ResultTypes :
          Request(m, u, a, b, r)
    \/ \E m \in Methods, e \in Endpoints, a \in BOOLEAN, b \in ParamsSet, r \in ResultTypes :
          ApiRequest(m, e, a, b, r)
    \/ ping
    \/ GetServerTime
    \/ GetMarketInformation
    \/ \E p \in OrderBookInputs : GetOrderBook(p)
    \/ \E p \in RecentTradesInputs : GetRecentTrades(p)
    \/ \E p \in WalletInputs : GetWallets(p)
    \/ \E p \in CreateOrderInputs : CreateOrder(p)
    \/ \E p \in CancelOrderInputs : CancelOrder(p)
    \/ \E p \in CancelOrderBulkInputs : CancelOrderBulk(p)
    \/ \E p \in OrdersHistoryInputs : GetOrdersHistory(p)
    \/ \E p \in OpenOrdersInputs : GetOpenOrders(p)
    \/ \E p \in OrderStatusInputs : GetOrderStatus(p)
    \/ \E p \in UserTradesInputs : GetUserTrades(p)
    \/ \E response \in Responses : HttpClientDo(response)
    \/ RequestFinish
    \/ CallerContinue
    \/ Tick

Spec == Init /\ [][Next]_vars

-----------------------------------------------------------------------------
(* parseErrorResponse on its own.                                          *)

InitParse ==
    /\ client = NewClient([BaseUrl |-> "", ApiKey |-> "", ApiSecret |-> ""])
    /\ now = StartClock
    /\ IdleCall
    /\ inflight = NoneInFlight
    /\ \E st \in ErrorStatuses :
          \/ \E b \in NonObjectBodies : errIn = [statusCode |-> st, body |-> b]
          \/ \E n \in 0..MaxMembers : \E ms \in [1..n -> ErrorMembers] :
                errIn = [statusCode |-> st, body |-> JsonBody(JObj(ms))]
    /\ errOut = None
    /\ sigIn = None /\ sigOut = None

ParseError ==
    /\ errOut = None
    /\ errOut' = parseErrorResponse(errIn.statusCode, errIn.body)
    /\ UNCHANGED <<errIn, requestVars, signVars, concVars>>

NextParse == ParseError

SpecParse == InitParse /\ [][NextParse]_vars

-----------------------------------------------------------------------------
(* WrapWithSignature on its own.                                           *)

InitSign ==
    /\ client = NewClient([BaseUrl |-> "", ApiKey |-> "", ApiSecret |-> ""])
    /\ now = StartClock
    /\ IdleCall
    /\ inflight = NoneInFlight
    /\ errIn = None /\ errOut = None
    /\ sigIn \in [params : SignParams, secret : SignSecrets, timestamp : SignTimestamps]
    /\ sigOut = None

Sign ==
    /\ sigOut = None
    /\ sigOut' = [kind |-> "signed",
                  result |-> WrapWithSignature(sigIn.params, sigIn.secret, sigIn.timestamp)]
    /\ UNCHANGED <<sigIn, requestVars, parseVars, concVars>>

NextSign == Sign

SpecSign == InitSign /\ [][NextSign]_vars

-----------------------------------------------------------------------------
(* Goroutines calling Request concurrently on one client.  A call reads    *)
(* the client and the clock while it builds its request, then waits for    *)
(* the transport; the other goroutines run meanwhile.                      *)

\* The calls the goroutines make.
ConcCalls ==
    {[op |-> "ApiRequest", method |-> "GET", endpoint |-> "/order", auth |-> FALSE,
      body |-> NilParams],
     [op |-> "ApiRequest", method |-> "POST", endpoint |-> "/order", auth |-> TRUE,
      body |-> GetWalletParams("USDT")],
     [op |-> "Request", method |-> "GET", endpoint |-> "", auth |-> FALSE,
      body |-> GetWalletParams("USDT")]}

ConcClients ==
    {[NewClient([BaseUrl |-> "", ApiKey |-> k, ApiSecret |-> "abc"]) EXCEPT !.Version = Version] :
        k \in {"", "KEY"}}

InitConc ==
    /\ client \in ConcClients
    /\ now = StartClock
    /\ IdleCall
    /\ inflight = NoneInFlight
    /\ errIn = None /\ errOut = None
    /\ sigIn = None /\ sigOut = None

\* GoStartRequest keeping the URL it builds in a field of the client.
GoStartRequestSharedURL(g, method, endpoint, url, auth, body, order) ==
    LET p == PrepareRequest(client, method, url, auth, body, now, order)
    IN /\ inflight' = [inflight EXCEPT ![g] =
                          IF p.req = None THEN IdleGo
                          ELSE [kind |-> "inflight", method |-> method, endpoint |-> endpoint,
                                url |-> url, auth |-> auth, body |-> body,
                                clock |-> now, order |-> order, req |-> p.req,
                                stamp |-> IF auth /\ body # NilParams
                                          THEN [kind |-> "stamp", ts |-> SigningTimestamp(now)]
                                          ELSE None]]
       /\ client' = [client EXCEPT !.BaseUrl = url]
       /\ UNCHANGED <<now, pc, call, req, doCalls, resp, ret, sink>>
       /\ UNCHANGED <<parseVars, signVars>>

\* Request in goroutine g up to the transport call: a call that fails before
\* it returns at once.
GoStartRequest(g, method, endpoint, url, auth, body, order) ==
    LET p == PrepareRequest(client, method, url, auth, body, now, order)
    IN /\ inflight' = [inflight EXCEPT ![g] =
                          IF p.req = None THEN IdleGo
                          ELSE [kind |-> "inflight", method |-> method, endpoint |-> endpoint,
                                url |-> url, auth |-> auth, body |-> body,
                                clock |-> now, order |-> order, req |-> p.req,
                                stamp |-> IF auth /\ body # NilParams
                                          THEN [kind |-> "stamp", ts |-> SigningTimestamp(now)]
                                          ELSE None]]
       /\ UNCHANGED <<requestVars, parseVars, signVars>>

\* go c.Request(method, url, auth, body, nil)
GoRequest(g, method, url, auth, body) ==
    /\ inflight[g] = IdleGo
    /\ \E order \in CallOrders(auth, body) :
          GoStartRequest(g, method, "", url, auth, body, order)

\* go c.ApiRequest(method, endpoint, auth, body, nil)
GoApiRequest(g, method, endpoint, auth, body) ==
    /\ inflight[g] = IdleGo
    /\ \E order \in CallOrders(auth, body) :
          GoStartRequest(g, method, endpoint, createApiURI(client, method, endpoint),
                         auth, body, order)

\* The transport answers goroutine g and its Request returns to the caller.
GoReturn(g) ==
    /\ inflight[g] # IdleGo
    /\ inflight' = [inflight EXCEPT ![g] = IdleGo]
    /\ UNCHANGED <<requestVars, parseVars, signVars>>

NextConc ==
    \/ \E g \in Goroutines : \E c \in {x \in ConcCalls : x.op = "Request"} :
          \E u \in DirectURLs : GoRequest(g, c.method, u, c.auth, c.body)
    \/ \E g \in Goroutines : \E c \in {x \in ConcCalls : x.op = "ApiRequest"} :
          GoApiRequest(g, c.method, c.endpoint, c.auth, c.body)
    \/ \E g \in Goroutines : GoReturn(g)
    \/ Tick

SpecConc == InitConc /\ [][NextConc]_vars


-----------------------------------------------------------------------------
(* Properties of routing and of Request (checked under Spec).              *)

IsApiRequest == pc # "idle" /\ call.endpoint # ""

MissingCredentials == client.ApiKey = "" \/ client.ApiSecret = ""

ReadPrefixURL(endpoint) == client.BaseUrl \o "/r/api/" \o client.Version \o endpoint
WritePrefixURL(endpoint) == client.BaseUrl \o "/api/" \o client.Version \o endpoint

TargetsURL(url) == req.URL = url \/ HasPrefix(req.URL, url \o "?")

AuthConfigurationError ==
    GoTabdealError("authentication validation failed",
                   GoTabdealError(IF client.ApiKey = "" THEN "api key is empty"
                                  ELSE "api secret is empty", NilError))

CallParamsEncode ==
    call.body = NilParams
    \/ \A i \in 1..Len(call.body.fields) : call.body.fields[i].v.k # "struct"

CallConstructs == ValidMethod(call.method) /\ ValidURL(call.url)

ReadableResponse == resp.kind = "response" /\ ~resp.readFails

\* C4: with a readable response, a status outside [200, 300) makes Request
\* return the APIError of parseErrorResponse(status, body), and a status inside
\* never gives an APIError.
C4_StatusDispatch ==
    (pc = "done" /\ ReadableResponse) =>
        /\ (resp.status < 200 \/ resp.status >= 300) =>
               /\ ret.kind = "APIError"
               /\ ret.StatusCode = resp.status
               /\ ret = parseErrorResponse(resp.status, resp.body)
        /\ (resp.status >= 200 /\ resp.status < 300) => ret.kind # "APIError"

C4_Witness ==
    /\ pc = "done"
    /\ ReadableResponse
    /\ resp.status = 199
    /\ resp.body = ErrorBodyObject
    /\ ret.kind = "APIError"
    /\ ret.Code = -1100

\* The body of the response decodes into a sink of the call's type.
BodyDecodes ==
    /\ resp.body.kind = "json"
    /\ \/ resp.body.v.t = "null"
       \/ call.result = "struct" /\ resp.body.v.t = "object"
       \/ call.result = "slice" /\ resp.body.v.t = "array"

\* C5: a 2xx response whose body does not decode into a non-nil sink gives a
\* RequestError labelled "parsing response"; with a nil sink a 2xx response
\* gives no error.
C5_ParsingResponse ==
    (pc = "done" /\ ReadableResponse /\ resp.status >= 200 /\ resp.status < 300) =>
        /\ (call.result # "nil" /\ ~BodyDecodes) =>
               ret.kind = "RequestError" /\ ret.Operation = "parsing response"
        /\ call.result = "nil" => ret = NilError

C5_Witness ==
    /\ pc = "done"
    /\ ReadableResponse
    /\ resp.status = 299
    /\ resp.body = EmptyBody
    /\ call.result = "struct"
    /\ ret.kind = "RequestError"
    /\ ret.Operation = "parsing response"

\* The URL of a call whose params are encoded as the caller gave them.
UnsignedURL ==
    IF call.body = NilParams THEN call.url
    ELSE call.url \o "?" \o StructToURLParams(call.body).s

\* C13: a call with auth unset does not run the signer: its query string is
\* the encoding of the caller's params alone, with no timestamp and no
\* signature entry, and its request has no X-MBX-APIKEY header even when the
\* client has a key.
C13_UnsignedWhenNoAuth ==
    (pc # "idle" /\ ~call.auth) =>
        /\ call.stamp = None
        /\ req # None =>
               /\ req.URL = UnsignedURL
               /\ ~HasSubstring(req.URL, "timestamp=")
               /\ ~HasSubstring(req.URL, "signature=")
               /\ "X-MBX-APIKEY" \notin DOMAIN req.Header

C13_Witness ==
    /\ pc = "sending"
    /\ ~call.auth
    /\ client.ApiKey = "KEY"
    /\ client.ApiSecret = "abc"
    /\ call.body = GetOrderBookParams("BTCIRT", "", 0)
    /\ req.URL = "http://localhost/ping?symbol=BTCIRT"
    /\ DOMAIN req.Header = {"Content-Type"}

\* The encodings the call's params can take: one for unsigned params, one per
\* iteration order of the signed record.
CallEncodings ==
    IF call.auth
    THEN LET m == WrapWithSignature(call.body, client.ApiSecret, call.stamp.ts)
         IN {StructToURLParamsMap(m, o).s : o \in KeyOrders(m)}
    ELSE {StructToURLParams(call.body).s}

EncodeFails ==
    /\ call.body # NilParams
    /\ IF call.auth THEN ~CallParamsEncode ELSE StructToURLParams(call.body).err

\* The phase of the finished call that failed, if construction, sending or
\* reading did.
FailedPhase ==
    IF req = None
    THEN IF ~EncodeFails /\ ~CallConstructs THEN "creating request" ELSE "none"
    ELSE IF resp.kind = "sendError" THEN "sending request"
    ELSE IF resp.readFails THEN "reading response"
    ELSE "none"

PhaseCause(phase) ==
    CASE phase = "creating request" -> NewRequestCause
      [] phase = "sending request" -> SendCause
      [] phase = "reading response" -> ReadCause

\* C15: a call whose request construction, send or body read fails returns a
\* RequestError whose Operation names that phase and whose Err is the
\* underlying error, never nil; and no other call returns one of these labels.
C15_PhaseErrors ==
    pc = "done" =>
        /\ FailedPhase # "none" =>
               /\ ret.kind = "RequestError"
               /\ ret.Operation = FailedPhase
               /\ ret.Err = PhaseCause(FailedPhase)
               /\ ret.Err # NilError
        /\ (ret.kind = "RequestError"
            /\ ret.Operation \in {"creating request", "sending request", "reading response"})
           => ret.Operation = FailedPhase

C15_Witness ==
    /\ pc = "done"
    /\ resp.kind = "response"
    /\ resp.readFails
    /\ resp.status = 200
    /\ call.result = "nil"
    /\ ret = RequestError("reading response", "failed to read response body", ReadCause)

\* The finished call met a send failure, a read failure, a status outside 2xx
\* or a body that does not decode into its sink.
CallFailedAfterSend ==
    \/ resp.kind = "sendError"
    \/ resp.readFails
    \/ resp.status < 200 \/ resp.status >= 300
    \/ call.result # "nil" /\ ~BodyDecodes

\* C16: a call invokes the transport at most once; a call that got as far as
\* the transport invoked it exactly once, and after a send failure, a read
\* failure, a status outside 2xx or a decode failure it has returned an error.
C16_NoRetry ==
    /\ doCalls <= 1
    /\ pc \in {"received", "done"} => doCalls = (IF req = None THEN 0 ELSE 1)
    /\ (pc = "done" /\ req # None /\ CallFailedAfterSend) =>
           /\ doCalls = 1
           /\ ret.kind \in {"RequestError", "APIError"}

C16_Witness ==
    /\ pc = "done"
    /\ resp.kind = "sendError"
    /\ doCalls = 1
    /\ ret = RequestError("sending request", "failed to send request", SendCause)

\* The returned error is an APIError, a RequestError of the creating, sending
\* or reading phase, or the authentication-configuration error.
ReturnsBeforeDecode ==
    \/ ret.kind = "APIError"
    \/ ret.kind = "GoTabdealError"
    \/ /\ ret.kind = "RequestError"
       /\ ret.Operation \in {"creating request", "sending request", "reading response"}

\* C22: a call that returns an APIError, a RequestError of the creating,
\* sending or reading phase, or the authentication-configuration error leaves
\* the caller's sink as it was; the sink differs from what the caller handed in
\* only after a readable 2xx response on a call with a sink.
C22_SinkFrame ==
    pc # "idle" =>
        /\ (pc = "done" /\ ReturnsBeforeDecode) => sink = call.before
        /\ sink # call.before =>
               /\ pc = "done"
               /\ ReadableResponse
               /\ resp.status >= 200 /\ resp.status < 300
               /\ call.result # "nil"

C22_Witness ==
    /\ pc = "done"
    /\ call.result = "struct"
    /\ call.before = [kind |-> "decoded", v |-> JObj(<<>>)]
    /\ resp.kind = "response"
    /\ resp.status = 500
    /\ resp.body = ErrorBodyObject
    /\ ret.kind = "APIError"
    /\ sink = call.before

\* The URL of the request carries a timestamp and a signature.
CarriesSignature ==
    HasSubstring(req.URL, "timestamp=") /\ HasSubstring(req.URL, "signature=")

\* C24: a call with auth set and nil params is sent with the API key header
\* and the URL as given, with no query string, timestamp or signature; a
\* request carries a timestamp and a signature exactly when auth is set and
\* the params are not nil.
C24_NoSignatureWithoutParams ==
    (pc # "idle" /\ req # None) =>
        /\ (call.auth /\ call.body = NilParams) =>
               /\ req.URL = call.url
               /\ ~HasSubstring(req.URL, "?")
               /\ ~HasSubstring(req.URL, "timestamp=")
               /\ ~HasSubstring(req.URL, "signature=")
               /\ call.stamp = None
               /\ "X-MBX-APIKEY" \in DOMAIN req.Header
               /\ req.Header["X-MBX-APIKEY"] = client.ApiKey
        /\ CarriesSignature <=> (call.auth /\ call.body # NilParams)

C24_Witness ==
    /\ pc = "sending"
    /\ call.auth
    /\ call.body = NilParams
    /\ call.method = "DELETE"
    /\ req.URL = "http://localhost/ping"
    /\ req.Header["X-MBX-APIKEY"] = "KEY"

\* The endpoints of the authenticated GET methods: GetWallets,
\* GetOrdersHistory, GetOpenOrders, GetOrderStatus and GetUserTrades.
AuthenticatedReadEndpoints ==
    {"/get-funding-asset", "/allOrders", "/openOrders", "/order", "/myTrades"}

\* C18: every call with auth set targets the /api/ prefix, only calls without
\* auth target the /r/api/ prefix, and the authenticated GET methods target
\* {BaseUrl}/api/v1<endpoint>.
C18_AuthenticatedUseApiPrefix ==
    IsApiRequest =>
        /\ call.auth => HasPrefix(call.url, client.BaseUrl \o "/api/")
        /\ HasPrefix(call.url, client.BaseUrl \o "/r/api/") => ~call.auth
        /\ (call.auth /\ call.method = "GET" /\ call.endpoint \in AuthenticatedReadEndpoints) =>
               call.url = client.BaseUrl \o "/api/v1" \o call.endpoint

\* The client is as NewClient returned it.
FromNewClient == client \in {NewClient(o) : o \in ClientOptionsSet}

\* C19: on a client returned by NewClient every call built from an endpoint
\* has the version segment v1 between the prefix and the endpoint, as in
\* {BaseUrl}/r/api/v1/exchangeInfo and {BaseUrl}/api/v1/order; the segment is
\* never empty.
C19_VersionSegment ==
    (IsApiRequest /\ FromNewClient) =>
        /\ client.Version # ""
        /\ call.url = client.BaseUrl
                         \o (IF call.method = "GET" THEN "/r/api/" ELSE "/api/")
                         \o "v1" \o call.endpoint
        /\ (call.method = "GET" /\ call.endpoint = "/exchangeInfo") =>
               call.url = client.BaseUrl \o "/r/api/v1/exchangeInfo"
        /\ (call.method = "POST" /\ call.endpoint = "/order") =>
               call.url = client.BaseUrl \o "/api/v1/order"


-----------------------------------------------------------------------------
(* Properties of concurrent calls (checked under SpecConc).                *)

\* The request goroutine g's call builds from its own arguments, the client
\* configuration c and the clock reading it took.
OwnRequest(c, f) ==
    PrepareRequest(c, f.method, f.url, f.auth, f.body, f.clock, f.order).req

\* C17: no step of any call changes the client; the request of every call in
\* flight is the one its own arguments, the client configuration and its own
\* clock reading give; and no step of another call changes it.
C17_NoSharedState ==
    [][/\ client' = client
       /\ \A g \in Goroutines :
             /\ inflight'[g] # IdleGo => inflight'[g].req = OwnRequest(client', inflight'[g])
             /\ (inflight[g] # IdleGo /\ inflight'[g] # IdleGo) => inflight'[g] = inflight[g]
      ]_vars

\* a is an earlier instant than b (both as seconds and milliseconds).
MillisLess(a, b) == a.sec < b.sec \/ (a.sec = b.sec /\ a.ms < b.ms)

\* Goroutine g has a call in flight that ran the signer.
SignedCall(g) == inflight[g] # IdleGo /\ inflight[g].stamp # None

\* C12: a signed call signs with the wall-clock time in milliseconds read
\* during the call, and of two signed calls the one made at a later
\* millisecond carries a strictly greater timestamp.
C12_FreshTimestamps ==
    \A g \in Goroutines :
        SignedCall(g) =>
            /\ inflight[g].stamp.ts = Millis(inflight[g].clock.sec, inflight[g].clock.ms)
            /\ HasSubstring(inflight[g].req.URL,
                            "timestamp=" \o FormatInt(Millis(inflight[g].clock.sec,
                                                             inflight[g].clock.ms)))
            /\ \A h \in Goroutines :
                   (SignedCall(h) /\ MillisLess(inflight[h].clock, inflight[g].clock)) =>
                       MillisLess(inflight[h].stamp.ts, inflight[g].stamp.ts)

C17_Witness ==
    /\ inflight[1] # IdleGo
    /\ inflight[2] # IdleGo
    /\ inflight[1].auth
    /\ ~inflight[2].auth
    /\ inflight[1].clock = StartClock
    /\ inflight[2].clock # StartClock
    /\ HasPrefix(inflight[1].req.URL, "https://api1.tabdeal.org/api/v1/order?")
    /\ HasSubstring(inflight[1].req.URL, "timestamp=1700000000000")
    /\ inflight[1].req.Header["X-MBX-APIKEY"] = "KEY"
    /\ inflight[2].req.URL = "https://api1.tabdeal.org/r/api/v1/order"
    /\ DOMAIN inflight[2].req.Header = {"Content-Type"}


-----------------------------------------------------------------------------
(* Properties of parseErrorResponse (checked under SpecParse).             *)

Parsed == errOut # None

BodyMembers == IF IsObjectBody(errIn.body) THEN errIn.body.v.members ELSE <<>>

\* The value of the last member named exactly name (JNull when there is none).
BodyValue(name) ==
    IF \E i \in 1..Len(BodyMembers) : BodyMembers[i][1] = name
    THEN BodyMembers[CHOOSE i \in 1..Len(BodyMembers) :
                        /\ BodyMembers[i][1] = name
                        /\ \A j \in (i+1)..Len(BodyMembers) : BodyMembers[j][1] # name][2]
    ELSE JNull

BodyKeys == {BodyMembers[i][1] : i \in 1..Len(BodyMembers)}

IsNonEmptyString(v) == v.t = "string" /\ v.s # ""

StatusFallback == "Tabdeal API error (" \o ToString(errIn.statusCode) \o ")"

\* C6 as stated: Message is never empty, and is the fallback embedding the
\* status code whenever the body has no member msg holding a non-empty string.
C6_FallbackUnlessMsg ==
    Parsed =>
        /\ errOut.Message # ""
        /\ (~\E i \in 1..Len(BodyMembers) :
                BodyMembers[i][1] = "msg" /\ IsNonEmptyString(BodyMembers[i][2]))
           => (errOut.Message = StatusFallback
               /\ HasSubstring(errOut.Message, ToString(errIn.statusCode)))

\* C6 amended: Message is never empty, and is the fallback embedding the status
\* code whenever no member whose name equals msg ignoring letter case holds a
\* non-empty string.
C6_FallbackUnlessFoldedMsg ==
    Parsed =>
        /\ errOut.Message # ""
        /\ (~\E i \in 1..Len(BodyMembers) :
                FoldName(BodyMembers[i][1]) = "msg" /\ IsNonEmptyString(BodyMembers[i][2]))
           => (errOut.Message = StatusFallback
               /\ HasSubstring(errOut.Message, ToString(errIn.statusCode)))

C6_Witness ==
    /\ Parsed
    /\ errIn.statusCode = 500
    /\ errIn.body = JsonBody(JObj(<< <<"msg", JNum(5)>>, <<"extra", JStr("x")>> >>))
    /\ errOut.Message = "Tabdeal API error (500)"

\* C7: parseErrorResponse always returns an APIError; for a body that is not a
\* JSON object it has Code 0, no Detail, no Fields, the given StatusCode and the
\* status-code fallback Message.
C7_NonObjectBody ==
    Parsed =>
        /\ errOut.kind = "APIError"
        /\ errOut.StatusCode = errIn.statusCode
        /\ ~IsObjectBody(errIn.body) =>
               /\ errOut.Code = 0
               /\ errOut.Detail = ""
               /\ DOMAIN errOut.Fields = {}
               /\ errOut.Message = StatusFallback

C7_Witness ==
    /\ Parsed
    /\ errIn.statusCode = 500
    /\ errIn.body = EmptyBody
    /\ errOut.Message = "Tabdeal API error (500)"
    /\ DOMAIN errOut.Fields = {}

StringFieldsVerbatim ==
    \A k \in BodyKeys :
        BodyValue(k).t = "string" =>
            k \in DOMAIN errOut.Fields /\ errOut.Fields[k] = <<BodyValue(k).s>>

HasCodeAndMsg ==
    /\ BodyValue("code").t = "number"
    /\ BodyValue("code").n # 0
    /\ IsNonEmptyString(BodyValue("msg"))

\* C8 as stated: an object body with a non-zero integer code and a non-empty
\* string msg gives Code equal to the code, Message equal to the msg, and
\* Fields[k] = <<s>> for every key k holding the string s.
C8_CodeMsgFields ==
    (Parsed /\ HasCodeAndMsg) =>
        /\ errOut.Code = BodyValue("code").n
        /\ errOut.Message = BodyValue("msg").s
        /\ StringFieldsVerbatim

\* No member spells code or msg in another letter case.
NoCaseVariants ==
    \A k \in BodyKeys : FoldName(k) \in {"code", "msg"} => k \in {"code", "msg"}

\* C8 amended: the same, for a code within the signed 16-bit range and a body
\* with no other member whose name equals code or msg ignoring letter case.
C8_CodeMsgFieldsInRange ==
    (Parsed /\ HasCodeAndMsg /\ NoCaseVariants
        /\ BodyValue("code").n >= -32768 /\ BodyValue("code").n <= 32767) =>
        /\ errOut.Code = BodyValue("code").n
        /\ errOut.Message = BodyValue("msg").s
        /\ StringFieldsVerbatim

C8_Witness ==
    /\ Parsed
    /\ errIn.statusCode = 400
    /\ errIn.body = JsonBody(JObj(<< <<"code", JNum(-1100)>>, <<"msg", JStr("bad param")>>,
                                     <<"extra", JStr("x")>> >>))
    /\ errOut.Code = -1100
    /\ errOut.Message = "bad param"
    /\ errOut.Fields["extra"] = <<"x">>

\* What the typed decode of the first pass yields for the body.
TypedDecode == UnmarshalErrorResponse(errIn.body)

\* The string held by the member named exactly name, "" when there is none.
GenericString(name) == IF BodyValue(name).t = "string" THEN BodyValue(name).s ELSE ""

\* C20: a non-empty msg (resp. detail) of the typed decode is the final
\* Message (resp. Detail) whatever the generic pass finds; the generic keys msg
\* and detail fill Message and Detail only when the typed decode left them
\* empty.
C20_FirstPassKept ==
    Parsed =>
        LET typed == TypedDecode
            msg == GenericString("msg")
        IN /\ typed.Message # "" => errOut.Message = typed.Message
           /\ typed.Detail # "" => errOut.Detail = typed.Detail
           /\ typed.Message = "" =>
                  errOut.Message = (IF msg # "" THEN msg ELSE StatusFallback)
           /\ typed.Detail = "" => errOut.Detail = GenericString("detail")

C20_Witness ==
    /\ Parsed
    /\ errIn.body = JsonBody(JObj(<< <<"msg", JStr("bad param")>>, <<"MSG", JStr("loud")>>,
                                     <<"Detail", JStr("more")>> >>))
    /\ TypedDecode.Message = "loud"
    /\ GenericString("msg") = "bad param"
    /\ errOut.Message = "loud"
    /\ errOut.Detail = "more"

\* C21: for a body that is a JSON object, the keys of Fields are exactly the
\* top-level keys of the body, also when the body spells a documented key in
\* another letter case.
C21_FieldsKeySet ==
    (Parsed /\ IsObjectBody(errIn.body)) => DOMAIN errOut.Fields = BodyKeys

\* The body's code is an integer outside, resp. inside, the int16 range.
CodeOutOfRange ==
    /\ BodyValue("code").t = "number"
    /\ (BodyValue("code").n < MinInt16 \/ BodyValue("code").n > MaxInt16)

CodeInRange ==
    /\ BodyValue("code").t = "number"
    /\ BodyValue("code").n >= MinInt16 /\ BodyValue("code").n <= MaxInt16

\* What C23 says of the returned error.
CodeRangeOutcome ==
    /\ CodeOutOfRange =>
           /\ errOut.Code = 0
           /\ "code" \in DOMAIN errOut.Fields
           /\ errOut.Fields["code"] = <<SprintV(BodyValue("code"))>>
           /\ IsNonEmptyString(BodyValue("msg")) => errOut.Message = BodyValue("msg").s
           /\ IsNonEmptyString(BodyValue("detail")) => errOut.Detail = BodyValue("detail").s
    /\ (CodeInRange /\ BodyValue("code").n # 0) => errOut.Code = BodyValue("code").n

NoDocumentedCaseVariants ==
    \A k \in BodyKeys :
        FoldName(k) \in {"code", "msg", "detail"} => k \in {"code", "msg", "detail"}

\* No two members have names that equal the same one of code, msg and detail.
NoRepeatedDocumented ==
    \A i, j \in 1..Len(BodyMembers) :
        (i # j /\ BodyMembers[i][1] \in {"code", "msg", "detail"}) =>
            BodyMembers[i][1] # BodyMembers[j][1]

-----------------------------------------------------------------------------
(* Properties of WrapWithSignature (checked under SpecSign).               *)

Signed == sigOut # None

\* The (wire name, value) pairs of the fields of the input that are not omitted.
SentFields == RecordOfFields(sigIn.params.fields)

\* C9: the keys of the returned record are the wire names of the non-omitted
\* fields of the input plus timestamp and signature, and nothing else.
C9_KeySet ==
    Signed =>
        DOMAIN sigOut.result =
            {SentFields[i][1] : i \in 1..Len(SentFields)} \cup {"timestamp", "signature"}

\* C10: the signed string is the wire-name=value pairs in field order followed
\* by timestamp=<ms>; for symbol = "BTCIRT" alone and timestamp 1700000000000
\* it is symbol=BTCIRT&timestamp=1700000000000.
C10_CanonicalString ==
    Signed =>
        /\ sigOut.result["signature"].msg =
               JoinStrings([i \in 1..Len(SentFields) |->
                               SentFields[i][1] \o "=" \o SprintGo(SentFields[i][2])]
                           \o <<"timestamp=" \o FormatInt(sigIn.timestamp)>>, "&")
        /\ (sigIn.params = GetOrderBookParams("BTCIRT", "", 0)
            /\ sigIn.timestamp = Millis(1700000000, 0))
           => sigOut.result["signature"].msg = "symbol=BTCIRT&timestamp=1700000000000"


\* The keys of the input's fields, in field order.
InputKeys == [i \in 1..Len(sigIn.params.fields) |-> SignKey(sigIn.params.fields[i])]

\* The string rebuilt from the returned record alone: the entry of every input
\* key in field order, then the timestamp entry, each as key=value.
RebuiltFromResult ==
    JoinStrings([i \in 1..Len(InputKeys) |->
                    InputKeys[i] \o "=" \o SprintGo(sigOut.result[InputKeys[i]])]
                \o <<"timestamp=" \o SprintGo(sigOut.result["timestamp"])>>, "&")

\* The key=value pairs the HMAC was computed over.
SignedPairSet ==
    {SignPairs(sigIn.params.fields)[i] : i \in 1..Len(sigIn.params.fields)}
    \cup {"timestamp=" \o FormatInt(sigIn.timestamp)}

\* The key=value pairs of the entries of the returned record but signature.
ReturnedPairSet ==
    {k \o "=" \o SprintGo(sigOut.result[k]) : k \in DOMAIN sigOut.result \ {"signature"}}

\* C11: the signature of the returned record is the HMAC, under the secret, of
\* the string rebuilt from that record's other entries (the input's fields in
\* order, then timestamp); the pairs signed are exactly the pairs returned,
\* and the timestamp returned is the one given.
C11_SelfConsistent ==
    Signed =>
        /\ sigOut.result["signature"] = HmacSha256Hex(sigIn.secret, RebuiltFromResult)
        /\ SignedPairSet = ReturnedPairSet
        /\ sigOut.result["timestamp"] = sigIn.timestamp

C11_Witness ==
    /\ Signed
    /\ sigIn.params = GetOrderStatusParams(777, "order-001")
    /\ sigIn.secret = "abc"
    /\ sigIn.timestamp = Millis(1700000000, 42)
    /\ sigOut.result["signature"] =
           HmacSha256Hex("abc", "orderId,omitempty=777&origClientOrderId,omitempty=order-001"
                                 \o "&timestamp=1700000000042")
    /\ sigOut.result["timestamp"] = Millis(1700000000, 42)

====
